---------------------------- MODULE Spec2Model ----------------------------
(***************************************************************************)
(* Model of the glbtool optimisation pipeline (glbtools package and the    *)
(* glbopt command line front ends).                                        *)
(*                                                                         *)
(* A geometry is a record                                                  *)
(*   vertices : sequence of [id, p]   (id = index the vertex had when the  *)
(*              geometry was loaded, p = its position)                     *)
(*   faces    : sequence of index triples, 0-based as in the code          *)
(*   visual   : [kind, data]  kind "texture" carries the UV array,         *)
(*              kind "color" carries the per-vertex colour array, kind     *)
(*              "none" carries nothing; data[i] names the vertex id the    *)
(*              entry was authored for.                                    *)
(***************************************************************************)
EXTENDS Integers, Sequences, FiniteSets, TLC

VARIABLES
    geom,     \* the geometry the mesh processor works on
    pre,      \* the same geometry as it was when the last call started
    ops,      \* the calls made so far, oldest first
    rets,     \* what each call returned
    decim,    \* the requests made to the decimation transform, in order: the
              \* face_count asked for and the target_faces_ratio of the call
    pc,       \* where the invocation stands
    entry,    \* "cli": glbopt.py main(); "api": a GLBOptimizer method called directly
    config,   \* the OptimizationConfig the GLBOptimizer was built with
    options,  \* [mode, ratio, validation] as parsed from the command line
              \* (ratio in hundredths, 0 = not given)
    func,     \* the GLBOptimizer method running
    input,    \* the scene stored in the input file
    texFail,  \* the iterations of the texture loop whose per-image step gave no result
    scene,    \* the scene in memory
    cursor,   \* position of the per-geometry loop
    before,   \* each processed geometry as it was when its cleanup/repair call started
    reported, \* what the cleanup/repair call of each processed geometry returned
    trace,    \* the pipeline stages entered, in order; for clean_geometry called
              \* on its own, the passes its last call started
    error,    \* what ended the run early ("none" when nothing did)
    success,  \* the value returned by the GLBOptimizer method
    exit,     \* exit status of main() (-1 while running)
    output    \* the scene handed to the exporter

meshVars == <<geom, pre, ops, rets, decim>>
runVars == <<pc, entry, config, options, func, input, texFail, scene, cursor, before, reported,
             trace, error, success, exit, output>>
vars == <<meshVars, runVars>>

(***************************************************************************)
(* Bounds of the explored inputs.                                          *)
(***************************************************************************)
MaxVerts == 3
MaxFaces == 2
MaxCalls == 2
FaceSlack == 2
MaxGeoms == 2

(***************************************************************************)
(* OptimizationConfig defaults.  Ratios are counted in hundredths.         *)
(***************************************************************************)
min_face_count == 100
safe_face_ratio == 80
min_texture_size == 64

\* the fields of OptimizationConfig that differ between the runs explored
\* (quality in percent, resize factor in hundredths, time in pipeline steps)
DefaultConfig ==
    [webp_quality_normal |-> 85, webp_quality_aggressive |-> 70,
     webp_resize_factor |-> 75, max_processing_time_seconds |-> 300]

(***************************************************************************)
(* Sequence helpers.                                                       *)
(***************************************************************************)
RECURSIVE SortedSeq(_)
SortedSeq(S) ==
    IF S = {} THEN <<>>
    ELSE LET m == CHOOSE x \in S : \A y \in S : x <= y
         IN  <<m>> \o SortedSeq(S \ {m})

RECURSIVE SelectIdx(_, _, _)
\* the sub-sequence of s at the positions k (1-based) for which keep[k] holds
SelectIdx(s, keep, k) ==
    IF k > Len(s) THEN <<>>
    ELSE (IF keep[k] THEN <<s[k]>> ELSE <<>>) \o SelectIdx(s, keep, k + 1)

IndexOf(s, x) == CHOOSE k \in 1..Len(s) : s[k] = x

Last(s) == s[Len(s)]

\* the k-th smallest (k = 1, 2, ...) member of a set of integers
KthOf(S, k) == CHOOSE i \in S : Cardinality({ j \in S : j < i }) = k - 1

(***************************************************************************)
(* Geometry queries.                                                       *)
(***************************************************************************)
NumVertices(g) == Len(g.vertices)
NumFaces(g) == Len(g.faces)

\* set(geometry.faces.flatten())
UsedVertexIndices(g) == { g.faces[f][c] : f \in 1..Len(g.faces), c \in 1..3 }

\* every face index addresses an existing vertex
FacesInRange(g) ==
    \A f \in 1..Len(g.faces) : \A c \in 1..3 :
        g.faces[f][c] >= 0 /\ g.faces[f][c] < Len(g.vertices)

\* numpy fancy indexing a[list]: IndexError when an index is past the end
CanIndex(arr, idxList) == \A k \in 1..Len(idxList) : idxList[k] < Len(arr)
TakeIdx(arr, idxList) == [k \in 1..Len(idxList) |-> arr[idxList[k] + 1]]

(***************************************************************************)
(* MeshProcessor._remove_unused_vertices                                   *)
(* Result: the geometry as the call leaves it and the value it returns.    *)
(***************************************************************************)
\* faulty variant: the face buffer is left on the old indices
RemapFaces_Stale(faces, usedList) == faces

RemapFaces(faces, usedList) ==
    [f \in 1..Len(faces) |->
        [c \in 1..3 |-> IndexOf(usedList, faces[f][c]) - 1]]

SliceUV(visual, usedList) ==
    [kind |-> visual.kind, data |-> TakeIdx(visual.data, usedList)]

RemoveUnusedVertices(g) ==
    LET n        == Len(g.vertices)
        used     == UsedVertexIndices(g)
        unused   == (0..(n - 1)) \ used
        usedList == SortedSeq(used)
        updated  == [g EXCEPT !.vertices = TakeIdx(g.vertices, usedList),
                              !.faces = RemapFaces(g.faces, usedList)]
    IN  IF n = 0 THEN [g |-> g, ok |-> FALSE]
        ELSE IF unused = {} THEN [g |-> g, ok |-> TRUE]
        ELSE IF ~CanIndex(g.vertices, usedList) THEN [g |-> g, ok |-> FALSE]
        ELSE IF g.visual.kind = "texture"
             THEN IF CanIndex(g.visual.data, usedList)
                  THEN [g |-> [updated EXCEPT !.visual = SliceUV(g.visual, usedList)],
                        ok |-> TRUE]
                  ELSE [g |-> updated, ok |-> FALSE]
             ELSE [g |-> updated, ok |-> TRUE]

(***************************************************************************)
(* The trimesh calls made by the mesh processor.  Each returns the         *)
(* geometry as the call leaves it and whether the call raised.  A call     *)
(* that indexes the vertex buffer with the face buffer raises IndexError   *)
(* on a face index past the end of the vertex buffer.                      *)
(***************************************************************************)
Oracles ==
    { "ok", "flip", "merge", "unref", "degen", "degen2", "dupf", "dupf2", "normals" }

\* indices (0-based, ascending) kept by a vertex merge: the referenced vertices
\* (all of them when there is no face), first occurrence of each position
MergeKeep(g) ==
    LET n   == Len(g.vertices)
        ref == IF Len(g.faces) > 0 THEN UsedVertexIndices(g) ELSE 0..(n - 1)
    IN  SortedSeq({ i \in ref :
            \A j \in ref : j < i => g.vertices[j + 1].p # g.vertices[i + 1].p })

\* the kept vertex standing for vertex i after a merge
MergeRep(g, keepList, i) ==
    CHOOSE k \in 1..Len(keepList) :
        g.vertices[keepList[k] + 1].p = g.vertices[i + 1].p

\* Trimesh.update_vertices: faces re-indexed, visual and vertices masked
UpdateVertices(g, keepList, newFaces) ==
    IF g.visual.kind # "none" /\ ~CanIndex(g.visual.data, keepList)
    THEN [g |-> [g EXCEPT !.faces = newFaces], raised |-> TRUE]
    ELSE [g |-> [vertices |-> TakeIdx(g.vertices, keepList),
                 faces    |-> newFaces,
                 visual   |-> IF g.visual.kind = "none" THEN g.visual
                              ELSE SliceUV(g.visual, keepList)],
          raised |-> FALSE]

MergeVertices(g) ==
    IF ~FacesInRange(g) THEN [g |-> g, raised |-> TRUE]
    ELSE LET keepList == MergeKeep(g)
             newFaces == [f \in 1..Len(g.faces) |->
                             [c \in 1..3 |-> MergeRep(g, keepList, g.faces[f][c]) - 1]]
         IN  UpdateVertices(g, keepList, newFaces)

RemoveUnreferencedVertices(g) ==
    IF ~FacesInRange(g) THEN [g |-> g, raised |-> TRUE]
    ELSE LET keepList == SortedSeq(UsedVertexIndices(g))
         IN  IF Len(keepList) = Len(g.vertices) THEN [g |-> g, raised |-> FALSE]
             ELSE UpdateVertices(g, keepList, RemapFaces(g.faces, keepList))

\* Trimesh.update_faces(mask): the face buffer is masked, vertices stay
UpdateFaces(g, mask) == [g EXCEPT !.faces = SelectIdx(g.faces, mask, 1)]

CornerPos(g, f, c) == g.vertices[g.faces[f][c] + 1].p

\* Trimesh.nondegenerate_faces: mask of the faces with non-zero area
NondegenerateFaces(g) ==
    [f \in 1..Len(g.faces) |->
        /\ CornerPos(g, f, 1) # CornerPos(g, f, 2)
        /\ CornerPos(g, f, 2) # CornerPos(g, f, 3)
        /\ CornerPos(g, f, 1) # CornerPos(g, f, 3)]

\* np.sort(face): the corners of one face in ascending order
SortTriple(face) ==
    LET lo == CHOOSE x \in { face[1], face[2], face[3] } :
                  \A y \in { face[1], face[2], face[3] } : x <= y
        hi == CHOOSE x \in { face[1], face[2], face[3] } :
                  \A y \in { face[1], face[2], face[3] } : x >= y
    IN  <<lo, face[1] + face[2] + face[3] - lo - hi, hi>>

\* Trimesh.unique_faces: mask keeping the first face of each sorted index triple
UniqueFaces(g) ==
    [f \in 1..Len(g.faces) |->
        \A e \in 1..(f - 1) : SortTriple(g.faces[e]) # SortTriple(g.faces[f])]

\* Trimesh.fix_normals: winding made consistent; flip = the winding is reversed
FixNormals(g, flip) ==
    IF flip
    THEN [g EXCEPT !.faces = [f \in 1..Len(g.faces) |->
                                 <<g.faces[f][3], g.faces[f][2], g.faces[f][1]>>]]
    ELSE g

(***************************************************************************)
(* MeshProcessor._remove_invalid_faces / _remove_duplicate_faces           *)
(* first |-> the new API raised, second |-> the old method raised too      *)
(***************************************************************************)
RemoveInvalidFaces(g, o) ==
    IF ~FacesInRange(g) \/ o = "degen2" THEN [g |-> g, raised |-> TRUE]
    ELSE [g |-> UpdateFaces(g, NondegenerateFaces(g)), raised |-> FALSE]

RemoveDuplicateFaces(g, o) ==
    IF o = "dupf2" THEN [g |-> g, raised |-> TRUE]
    ELSE [g |-> UpdateFaces(g, UniqueFaces(g)), raised |-> FALSE]

(***************************************************************************)
(* MeshProcessor.clean_geometry                                            *)
(***************************************************************************)
CleanGeometry(g, o) ==
    LET s1 == RemoveUnusedVertices(g).g
        m2 == IF o = "merge" THEN [g |-> s1, raised |-> TRUE] ELSE MergeVertices(s1)
        m3 == IF o = "unref" THEN [g |-> m2.g, raised |-> TRUE]
              ELSE RemoveUnreferencedVertices(m2.g)
        m4 == RemoveInvalidFaces(m3.g, o)
        m5 == RemoveDuplicateFaces(m4.g, o)
        s6 == FixNormals(m5.g, o = "flip")
    IN  IF m2.raised THEN [g |-> m2.g, ok |-> FALSE]
        ELSE IF m3.raised THEN [g |-> m3.g, ok |-> FALSE]
        ELSE IF m4.raised THEN [g |-> m4.g, ok |-> FALSE]
        ELSE IF m5.raised THEN [g |-> m5.g, ok |-> FALSE]
        ELSE IF o = "normals" THEN [g |-> m5.g, ok |-> FALSE]
        ELSE [g |-> s6, ok |-> TRUE]

\* the passes clean_geometry starts, in order: an exception leaving a pass
\* reaches line 86 and ends the call
PassesAttempted(g, o) ==
    LET s1 == RemoveUnusedVertices(g).g
        m2 == IF o = "merge" THEN [g |-> s1, raised |-> TRUE] ELSE MergeVertices(s1)
        m3 == IF o = "unref" THEN [g |-> m2.g, raised |-> TRUE] ELSE RemoveUnreferencedVertices(m2.g)
        m4 == RemoveInvalidFaces(m3.g, o)
        m5 == RemoveDuplicateFaces(m4.g, o)
    IN  IF m2.raised THEN <<"unused", "merge">>
        ELSE IF m3.raised THEN <<"unused", "merge", "unref">>
        ELSE IF m4.raised THEN <<"unused", "merge", "unref", "invalid">>
        ELSE IF m5.raised THEN <<"unused", "merge", "unref", "invalid", "duplicate">>
        ELSE <<"unused", "merge", "unref", "invalid", "duplicate", "normals">>

(***************************************************************************)
(* MeshProcessor.detect_mesh_holes                                         *)
(* Diagnostics are read from the face buffer: an edge is a pair of         *)
(* consecutive corners of a face.                                          *)
(***************************************************************************)
DirectedEdges(face) == { <<face[1], face[2]>>, <<face[2], face[3]>>, <<face[3], face[1]>> }

\* how many faces run along the undirected edge {a, b}
EdgeUse(g, a, b) ==
    Cardinality({ f \in 1..Len(g.faces) :
        <<a, b>> \in DirectedEdges(g.faces[f]) \/ <<b, a>> \in DirectedEdges(g.faces[f]) })

AllEdges(g) == UNION { DirectedEdges(g.faces[f]) : f \in 1..Len(g.faces) }

\* Trimesh.is_watertight: not empty and every edge shared by exactly two faces
IsWatertight(g) ==
    /\ Len(g.faces) > 0
    /\ \A e \in AllEdges(g) : EdgeUse(g, e[1], e[2]) = 2

\* Trimesh.is_winding_consistent: no directed edge is run twice the same way
IsWindingConsistent(g) ==
    /\ Len(g.faces) > 0
    /\ \A e \in AllEdges(g) :
          Cardinality({ f \in 1..Len(g.faces) : e \in DirectedEdges(g.faces[f]) }) = 1

\* Trimesh.is_volume
IsVolume(g) == IsWatertight(g) /\ IsWindingConsistent(g)

DetectMeshHoles(g, o) ==
    IF o = "detect" THEN <<"CheckSkipped">>
    ELSE IF IsWatertight(g) THEN <<>>
    ELSE <<"OpenBoundary">>
         \o (IF ~IsWindingConsistent(g) THEN <<"InconsistentWinding">> ELSE <<>>)
         \o (IF ~IsVolume(g) THEN <<"InvalidVolume">> ELSE <<>>)

(***************************************************************************)
(* MeshProcessor.fill_mesh_holes                                           *)
(***************************************************************************)
FillMeshHoles(g, o) ==
    LET m1 == IF o = "merge" THEN [g |-> g, raised |-> TRUE] ELSE MergeVertices(g)
        s2 == FixNormals(m1.g, o = "flip")
        m3 == RemoveInvalidFaces(s2, o)
    IN  IF m1.raised THEN [g |-> m1.g, ok |-> FALSE]
        ELSE IF o = "normals" THEN [g |-> m1.g, ok |-> FALSE]
        ELSE IF m3.raised THEN [g |-> m3.g, ok |-> FALSE]
        ELSE [g |-> m3.g, ok |-> TRUE]

(***************************************************************************)
(* MeshProcessor.validate_and_repair_mesh                                  *)
(***************************************************************************)
FaceMax(g) ==
    CHOOSE m \in UsedVertexIndices(g) : \A x \in UsedVertexIndices(g) : x <= m

\* lines 308-311: the faces with every index in [0, max_vertex_index]
ValidFaces(g) ==
    [f \in 1..Len(g.faces) |->
        \A c \in 1..3 : g.faces[f][c] <= Len(g.vertices) - 1 /\ g.faces[f][c] >= 0]

\* Trimesh.fill_holes: a boundary loop of three edges is closed by a new face
FillHoles(g) ==
    LET open == { f \in 1..Len(g.faces) :
                    \A e \in DirectedEdges(g.faces[f]) : EdgeUse(g, e[1], e[2]) = 1 }
        patch == [k \in 1..Cardinality(open) |->
                    LET f == KthOf(open, k)
                    IN  <<g.faces[f][3], g.faces[f][2], g.faces[f][1]>>]
    IN  [g EXCEPT !.faces = g.faces \o patch]

\* o = "patch": the geometry exposes is_valid, it is False, fill_holes runs
ValidateAndRepairMesh(g, o) ==
    IF Len(g.vertices) = 0 \/ Len(g.faces) = 0 THEN [g |-> g, ok |-> FALSE]
    ELSE LET kept == SelectIdx(g.faces, ValidFaces(g), 1)
             g1   == IF FaceMax(g) > Len(g.vertices) - 1
                     THEN [g EXCEPT !.faces = kept] ELSE g
         IN  IF FaceMax(g) > Len(g.vertices) - 1 /\ Len(kept) = 0
             THEN [g |-> g, ok |-> FALSE]
             ELSE IF o = "patch" THEN [g |-> FillHoles(g1), ok |-> TRUE]
             ELSE [g |-> g1, ok |-> TRUE]

(***************************************************************************)
(* Scenes.  scene.geometry is the name -> geometry mapping in iteration    *)
(* order, matOf[i] the material of geometry i (0 = none) and materials the *)
(* material objects; an image is [present, w, h, gen, q] with gen the      *)
(* number of WebP recompressions it went through and q the last quality.   *)
(***************************************************************************)
NoImage == [present |-> FALSE, w |-> 0, h |-> 0, gen |-> 0, q |-> 0]
Image(w, h) == [present |-> TRUE, w |-> w, h |-> h, gen |-> 0, q |-> 0]

EmptyScene ==
    [geometry |-> <<>>, names |-> <<>>, matOf |-> <<>>, materials |-> <<>>,
     lights |-> 0, camera |-> FALSE, flat |-> FALSE]

\* Idle values of the variables a specification does not use.
MeshIdle ==
    /\ geom = [vertices |-> <<>>, faces |-> <<>>, visual |-> [kind |-> "none", data |-> <<>>]]
    /\ pre = geom
    /\ ops = <<>>
    /\ rets = <<>>
    /\ decim = <<>>

RunIdle ==
    /\ pc = "idle"
    /\ entry = "api"
    /\ config = DefaultConfig
    /\ options = [mode |-> "normal", ratio |-> 0, validation |-> TRUE]
    /\ func = "none"
    /\ input = EmptyScene
    /\ texFail = {}
    /\ scene = EmptyScene
    /\ cursor = 0
    /\ before = <<>>
    /\ reported = <<>>
    /\ trace = <<>>
    /\ error = "none"
    /\ success = "pending"
    /\ exit = -1
    /\ output = EmptyScene

(***************************************************************************)
(* The input geometries.                                                   *)
(***************************************************************************)
FaceIdx == 0..MaxVerts
\* Corner order inside a face is read by no modelled pass except fix_normals,
\* which produces the reversed order itself, so the inputs list each face with
\* its corners in non-decreasing order.
FaceTriples ==
    { <<a, b, c>> : a \in FaceIdx, b \in FaceIdx, c \in FaceIdx } \cap
    { t \in FaceIdx \X FaceIdx \X FaceIdx : t[1] <= t[2] /\ t[2] <= t[3] }

RECURSIVE SeqsUpTo(_, _)
SeqsUpTo(S, n) ==
    IF n = 0 THEN { <<>> }
    ELSE LET shorter == SeqsUpTo(S, n - 1)
         IN  shorter \cup { Append(s, x) : s \in { t \in shorter : Len(t) = n - 1 }, x \in S }

\* n vertices; when d >= 2, vertex d (1-based) coincides with the first vertex
VertexBuffer(n, d) ==
    [i \in 1..n |-> [id |-> i - 1, p |-> IF i = d THEN 1 ELSE i]]

VertexBuffers ==
    { VertexBuffer(n, d) : n \in 0..MaxVerts, d \in {0} \cup (2..MaxVerts) }

\* no visual, a UV array, a colour array, and a UV array one entry short of
\* the vertex buffer
Visuals(n) ==
    { [kind |-> "none", data |-> <<>>],
      [kind |-> "texture", data |-> [i \in 1..n |-> i - 1]],
      [kind |-> "color", data |-> [i \in 1..n |-> i - 1]] } \cup
    (IF n >= 1 THEN { [kind |-> "texture", data |-> [i \in 1..(n - 1) |-> i - 1]] }
     ELSE {})

InitMesh ==
    /\ \E v \in VertexBuffers, f \in SeqsUpTo(FaceTriples, MaxFaces) :
         \E vis \in Visuals(Len(v)) :
            geom = [vertices |-> v, faces |-> f, visual |-> vis]
    /\ pre = geom
    /\ ops = <<>>
    /\ rets = <<>>
    /\ decim = <<>>
    /\ RunIdle

CallRemoveUnused ==
    /\ Len(ops) < MaxCalls
    /\ LET r == RemoveUnusedVertices(geom)
       IN  /\ geom' = r.g
           /\ rets' = Append(rets, r.ok)
    /\ pre' = geom
    /\ ops' = Append(ops, "unused")
    /\ UNCHANGED <<decim, runVars>>

CallClean ==
    /\ Len(ops) < MaxCalls
    /\ \E o \in Oracles :
         LET r == CleanGeometry(geom, o)
         IN  /\ geom' = r.g
             /\ rets' = Append(rets, r.ok)
             /\ trace' = PassesAttempted(geom, o)
    /\ pre' = geom
    /\ ops' = Append(ops, "clean")
    /\ UNCHANGED <<decim, pc, entry, config, options, func, input, texFail, scene, cursor,
                   before, reported, error, success, exit, output>>

NextMesh == CallRemoveUnused \/ CallClean

SpecMesh == InitMesh /\ [][NextMesh]_vars

(***************************************************************************)
(* MeshProcessor.simplify_geometry_safely                                  *)
(*                                                                         *)
(* The call reads only the length of the face buffer, so here a geometry   *)
(* is [hasFaces, vertices, faces, visual] where vertices and visual name   *)
(* the buffer object held ("orig" or "simplified") and faces is            *)
(* [buf, n] with n the face count.                                         *)
(*                                                                         *)
(* The decimation transform is external: out is what it does,              *)
(*   out.kind   "raise" | "none" | "mesh"                                  *)
(*   out.n      the face count of the mesh it returns                      *)
(*   out.visual whether the returned mesh has a visual                     *)
(*   out.fault  the assignment that raises: "no" | "vertices" | "faces" |  *)
(*              "visual"                                                   *)
(***************************************************************************)
Max(a, b) == IF a >= b THEN a ELSE b

SimplifyRet(ok, original_faces, new_faces) ==
    [success |-> ok, original_faces |-> original_faces, new_faces |-> new_faces]

\* faulty variant: the caller's ratio is used as it comes
TargetFaceCount_Unclamped(original_faces, target_faces_ratio) ==
    (original_faces * target_faces_ratio) \div 100

\* int(original_faces * max(safe_face_ratio, target_faces_ratio))
TargetFaceCount(original_faces, target_faces_ratio) ==
    (original_faces * Max(safe_face_ratio, target_faces_ratio)) \div 100

\* faulty variant: a geometry with exactly min_face_count faces is refused too
BelowMinFaceCount_Inclusive(g) == g.faces.n <= min_face_count

\* len(geometry.faces) < self.config.min_face_count
BelowMinFaceCount(g) == g.faces.n < min_face_count

\* lines 33-36: the three assignments, cut short by the one that raises
AssignSimplified(g, out) ==
    LET a1 == [g EXCEPT !.vertices = "simplified"]
        a2 == [a1 EXCEPT !.faces = [buf |-> "simplified", n |-> out.n]]
        a3 == IF out.visual THEN [a2 EXCEPT !.visual = "simplified"] ELSE a2
    IN  IF out.fault = "vertices" THEN g
        ELSE IF out.fault = "faces" THEN a1
        ELSE IF out.fault = "visual" /\ out.visual THEN a2
        ELSE a3

AssignRaises(out) ==
    out.fault \in {"vertices", "faces"} \/ (out.fault = "visual" /\ out.visual)

\* result: the geometry afterwards, the returned triple, the requests made
SimplifyGeometrySafely(g, target_faces_ratio, out) ==
    IF ~g.hasFaces \/ BelowMinFaceCount(g)
    THEN [g |-> g, ret |-> SimplifyRet(FALSE, 0, 0), asked |-> <<>>]
    ELSE LET original_faces == g.faces.n
             asked == << [face_count |-> TargetFaceCount(original_faces, target_faces_ratio),
                          target_faces_ratio |-> target_faces_ratio] >>
         IN  IF out.kind = "raise"
             THEN [g |-> g, ret |-> SimplifyRet(FALSE, 0, 0), asked |-> asked]
             ELSE IF out.kind = "mesh" /\ out.n > 0
             THEN IF AssignRaises(out)
                  THEN [g |-> AssignSimplified(g, out),
                        ret |-> SimplifyRet(FALSE, 0, 0), asked |-> asked]
                  ELSE [g |-> AssignSimplified(g, out),
                        ret |-> SimplifyRet(TRUE, original_faces, out.n),
                        asked |-> asked]
             ELSE [g |-> g,
                   ret |-> SimplifyRet(FALSE, original_faces, original_faces),
                   asked |-> asked]

FaceCounts == (min_face_count - FaceSlack)..(min_face_count + FaceSlack)

TargetRatios == {5, 30, 50, 80, 90, 100}

DecimationOutcomes(n) ==
    { [kind |-> "raise", n |-> 0, visual |-> FALSE, fault |-> "no"],
      [kind |-> "none", n |-> 0, visual |-> FALSE, fault |-> "no"] } \cup
    { [kind |-> "mesh", n |-> k, visual |-> v, fault |-> f] :
        k \in 0..(n + 1), v \in BOOLEAN,
        f \in {"no", "vertices", "faces", "visual"} }

InitSimplify ==
    /\ \E n \in FaceCounts, h \in BOOLEAN :
         geom = [hasFaces |-> h, vertices |-> "orig",
                 faces |-> [buf |-> "orig", n |-> IF h THEN n ELSE 0],
                 visual |-> "orig"]
    /\ pre = geom
    /\ ops = <<>>
    /\ rets = <<>>
    /\ decim = <<>>
    /\ RunIdle

CallSimplify ==
    /\ ops = <<>>
    /\ \E ratio \in TargetRatios, out \in DecimationOutcomes(geom.faces.n) :
         LET r == SimplifyGeometrySafely(geom, ratio, out)
         IN  /\ geom' = r.g
             /\ rets' = Append(rets, r.ret)
             /\ decim' = decim \o r.asked
    /\ pre' = geom
    /\ ops' = Append(ops, "simplify")
    /\ UNCHANGED runVars

NextSimplify == CallSimplify

SpecSimplify == InitSimplify /\ [][NextSimplify]_vars

(***************************************************************************)
(* detect_mesh_holes and validate_and_repair_mesh called on their own.     *)
(* Face buffers are int64 arrays, so an index may be negative, and the     *)
(* corner order decides the winding.                                       *)
(***************************************************************************)
RepairTriples ==
    FaceTriples \cup { <<2, 1, 0>>, <<0 - 1, 0, 1>>, <<0 - 1, 0, MaxVerts>> }

InitRepair ==
    /\ \E n \in 0..MaxVerts, f \in SeqsUpTo(RepairTriples, MaxFaces) :
         geom = [vertices |-> VertexBuffer(n, 0), faces |-> f,
                 visual |-> [kind |-> "none", data |-> <<>>]]
    /\ pre = geom
    /\ ops = <<>>
    /\ rets = <<>>
    /\ decim = <<>>
    /\ RunIdle

\* o = "detect": reading is_watertight raises
CallDetect ==
    /\ ops = <<>>
    /\ \E o \in { "ok", "detect" } : rets' = Append(rets, DetectMeshHoles(geom, o))
    /\ pre' = geom
    /\ ops' = Append(ops, "detect")
    /\ UNCHANGED <<geom, decim, runVars>>

CallValidate ==
    /\ ops = <<>>
    /\ \E o \in { "ok", "patch" } :
         LET r == ValidateAndRepairMesh(geom, o)
         IN  /\ geom' = r.g
             /\ rets' = Append(rets, r.ok)
    /\ pre' = geom
    /\ ops' = Append(ops, "validate")
    /\ UNCHANGED <<decim, runVars>>

NextRepair == CallDetect \/ CallValidate

SpecRepair == InitRepair /\ [][NextRepair]_vars

(***************************************************************************)
(* TextureProcessor.  resize_factor is counted in hundredths.              *)
(***************************************************************************)
\* faulty variant: the scaled edge is stored without the minimum
ResizeEdge_Unclamped(edge, resize_factor) == (edge * resize_factor) \div 100

ResizeEdge(edge, resize_factor) ==
    Max(min_texture_size, (edge * resize_factor) \div 100)

\* _compress_texture_webp when it returns an image
CompressTextureWebp(image, quality, resize_factor) ==
    [present |-> TRUE,
     w   |-> IF resize_factor # 100 THEN ResizeEdge(image.w, resize_factor) ELSE image.w,
     h   |-> IF resize_factor # 100 THEN ResizeEdge(image.h, resize_factor) ELSE image.h,
     gen |-> image.gen + 1,
     q   |-> quality]

\* hasattr(material, 'image') and material.image is not None, for geometry i
HasImage(sc, i) == sc.matOf[i] # 0 /\ sc.materials[sc.matOf[i]].present

RECURSIVE CompressFrom_StopsAtFailure(_, _, _, _, _)
\* faulty variant: the first image that cannot be recompressed ends the loop
CompressFrom_StopsAtFailure(sc, quality, resize_factor, failAt, i) ==
    IF i > Len(sc.geometry) \/ (HasImage(sc, i) /\ i \in failAt) THEN sc
    ELSE LET next == IF HasImage(sc, i)
                     THEN [sc EXCEPT !.materials[sc.matOf[i]] =
                              CompressTextureWebp(@, quality, resize_factor)]
                     ELSE sc
         IN  CompressFrom_StopsAtFailure(next, quality, resize_factor, failAt, i + 1)

RECURSIVE CompressFrom(_, _, _, _, _)
\* iterations i.. of the loop over scene.geometry; failAt: the iterations whose
\* per-image step returns None
CompressFrom(sc, quality, resize_factor, failAt, i) ==
    IF i > Len(sc.geometry) THEN sc
    ELSE LET m == sc.matOf[i]
             next == IF m # 0 /\ sc.materials[m].present /\ i \notin failAt
                     THEN [sc EXCEPT !.materials[m] =
                              CompressTextureWebp(@, quality, resize_factor)]
                     ELSE sc
         IN  CompressFrom(next, quality, resize_factor, failAt, i + 1)

CompressSceneTexturesWebp(sc, quality, resize_factor, failAt) ==
    CompressFrom(sc, quality, resize_factor, failAt, 1)

(***************************************************************************)
(* SceneManager                                                            *)
(***************************************************************************)
PruneOracles == { "ok", "lights", "camera", "flatten" }

\* hasattr(geometry, attr)
HasAttr(g, attr) == attr \in DOMAIN g

\* the test of line 65
Flattenable(g) == HasAttr(g, "vertices") /\ HasAttr(g, "faces")

\* the loop of flatten_scene from the i-th geometry on; flat is the new scene
\* so far and flattened_count the number of geometries added to it
RECURSIVE FlattenFrom(_, _, _, _)
FlattenFrom(sc, i, flattened_count, flat) ==
    IF i > Len(sc.geometry) THEN flat
    ELSE IF Flattenable(sc.geometry[i])
         THEN FlattenFrom(sc, i + 1, flattened_count + 1,
                  [flat EXCEPT !.geometry = Append(@, sc.geometry[i]),
                               !.names = Append(@, <<"mesh", flattened_count>>),
                               !.matOf = Append(@, sc.matOf[i])])
         ELSE FlattenFrom(sc, i + 1, flattened_count, flat)

FlattenScene(sc) ==
    FlattenFrom(sc, 1, 0, [EmptyScene EXCEPT !.materials = sc.materials, !.flat = TRUE])

\* faulty variant: the first failure ends the call
RemoveSceneElements_StopsAtFailure(sc, o) ==
    IF o = "lights" THEN sc
    ELSE IF o = "camera" THEN [sc EXCEPT !.lights = 0]
    ELSE IF o = "flatten" THEN [sc EXCEPT !.lights = 0, !.camera = FALSE]
    ELSE FlattenScene([sc EXCEPT !.lights = 0, !.camera = FALSE])

\* lines 15-30: the scene after lights and camera were cleared in place; o
\* names the step that fails
ClearElements(sc, o) ==
    LET s1 == IF sc.lights > 0 /\ o # "lights" THEN [sc EXCEPT !.lights = 0] ELSE sc
    IN  IF s1.camera /\ o # "camera" THEN [s1 EXCEPT !.camera = FALSE] ELSE s1

\* the value returned; o names the step that fails
RemoveSceneElements(sc, o) ==
    IF o = "flatten" THEN ClearElements(sc, o) ELSE FlattenScene(ClearElements(sc, o))

(***************************************************************************)
(* GLBOptimizer and main(): which method a mode selects, how it is called  *)
(* and which stages the method runs.                                       *)
(***************************************************************************)
Modes == { "normal", "aggressive", "ultra", "vertex", "repair" }

\* mode_map.get(options["mode"], optimizer.optimize_safe_texture_preserving)
ModeMap(mode) ==
    CASE mode = "normal"     -> "optimize_safe_texture_preserving"
      [] mode = "aggressive" -> "optimize_aggressive"
      [] mode = "ultra"      -> "optimize_ultra_light"
      [] mode = "vertex"     -> "optimize_vertex_cleanup"
      [] mode = "repair"     -> "optimize_hole_filling"
      [] OTHER               -> "optimize_safe_texture_preserving"

\* positional parameters each method accepts (self not counted)
MaxPositional(f) ==
    CASE f = "optimize_safe_texture_preserving" -> 3
      [] f = "optimize_aggressive"              -> 4
      [] f = "optimize_ultra_light"             -> 2
      [] f = "optimize_vertex_cleanup"          -> 2
      [] f = "optimize_hole_filling"            -> 2

\* positional arguments main() passes
CallArgs(mode) == IF mode \in { "vertex", "repair" } THEN 2 ELSE 3

\* get_mode_config(mode)[0], in hundredths
DefaultRatio(mode) ==
    CASE mode = "aggressive" -> 30
      [] mode = "ultra"      -> 10
      [] mode = "vertex"     -> 100
      [] mode = "repair"     -> 100
      [] OTHER               -> 70

\* faulty variant: every method that takes a ratio recompresses the textures
Stages_AlwaysTextures(f) ==
    IF f \in { "optimize_vertex_cleanup", "optimize_hole_filling" }
    THEN <<"load", "geometry", "export">>
    ELSE <<"load", "textures", "prune", "geometry", "export">>

Stages(f) ==
    CASE f = "optimize_safe_texture_preserving" -> <<"load", "prune", "geometry", "export">>
      [] f = "optimize_aggressive" -> <<"load", "textures", "prune", "geometry", "export">>
      [] f = "optimize_ultra_light" -> <<"load", "textures", "prune", "geometry", "export">>
      [] f = "optimize_vertex_cleanup" -> <<"load", "geometry", "export">>
      [] f = "optimize_hole_filling" -> <<"load", "geometry", "export">>

NextStage(f, stage) == Stages(f)[IndexOf(Stages(f), stage) + 1]

\* the arguments of compress_scene_textures_webp
TextureArgs(f) ==
    IF f = "optimize_ultra_light" THEN [quality |-> 70, resize_factor |-> 75]
    ELSE [quality |-> 85, resize_factor |-> 100]

\* faulty variant: an exception inside clean_geometry escapes instead of being caught
CleanGeometryCaught_Escapes(g, o) ==
    LET r == CleanGeometry(g, o) IN [g |-> r.g, ok |-> r.ok, raised |-> ~r.ok]

\* clean_geometry as its callers see it: lines 86-88 turn every exception into
\* the return value False
CleanGeometryCaught(g, o) ==
    LET r == CleanGeometry(g, o) IN [g |-> r.g, ok |-> r.ok, raised |-> FALSE]

\* faulty variant: a failure inside fill_mesh_holes escapes to the method
RepairGeometry_Escapes(g, o) ==
    LET holes == DetectMeshHoles(g, o)
        f     == IF holes # <<>> THEN FillMeshHoles(g, o) ELSE [g |-> g, ok |-> TRUE]
    IN  [g |-> f.g,
         report |-> IF holes = <<>> THEN "clean" ELSE IF f.ok THEN "ok" ELSE "failed",
         raised |-> ~f.ok]

\* one iteration of the loop of optimize_hole_filling; the three calls catch
\* every exception themselves, so none reaches the loop
RepairGeometry(g, o) ==
    LET holes == DetectMeshHoles(g, o)
        f     == IF holes # <<>> THEN FillMeshHoles(g, o) ELSE [g |-> g, ok |-> TRUE]
        v     == ValidateAndRepairMesh(f.g, o)
    IN  [g |-> v.g,
         report |-> IF holes = <<>> THEN "clean" ELSE IF f.ok THEN "ok" ELSE "failed",
         raised |-> FALSE]

\* processed_meshes and cleaned_meshes after the loop, from what each
\* iteration did ("clean": no issue detected; "ok": fill_mesh_holes returned
\* True; "failed": it returned False)
ProcessedMeshes(rep) == Len(rep)
CleanedMeshes(rep) == Cardinality({ i \in 1..Len(rep) : rep[i] \in { "ok", "clean" } })

RepairOracles == { "ok", "flip", "detect", "merge", "normals", "degen2", "patch" }

(***************************************************************************)
(* The invocations explored.                                               *)
(***************************************************************************)
NoVisual == [kind |-> "none", data |-> <<>>]

\* an open triangle, a degenerate face beside an unused vertex, a face with a
\* dangling index, and a closed (two-sided) triangle
SceneGeometries ==
    { [vertices |-> VertexBuffer(MaxVerts, 0), faces |-> fs, visual |-> NoVisual] :
        fs \in { << <<0, 1, 2>> >>, << <<0, 1, 1>> >>, << <<0, 1, MaxVerts>> >>,
                 << <<0, 1, 2>>, <<2, 1, 0>> >> } }

ImageSizes == { <<1024, 1024>>, <<80, 64>> }

\* a material carries an image of one of the sizes, or no image
SceneImages == { Image(sz[1], sz[2]) : sz \in ImageSizes } \cup { NoImage }

\* no material, one material shared by all geometries, one material each
MatConfigs(n) ==
    { [i \in 1..n |-> 0], [i \in 1..n |-> 1], [i \in 1..n |-> i] }

NumMaterials(matOf) ==
    IF \A i \in 1..Len(matOf) : matOf[i] = 0 THEN 0
    ELSE CHOOSE m \in 1..Len(matOf) :
            /\ \E i \in 1..Len(matOf) : matOf[i] = m
            /\ \A i \in 1..Len(matOf) : matOf[i] <= m

Scenes ==
    UNION { { [geometry |-> gs, names |-> [i \in 1..n |-> <<"geometry", i - 1>>],
               matOf |-> mo,
               materials |-> [k \in 1..NumMaterials(mo) |-> img],
               lights |-> IF decor THEN 1 ELSE 0, camera |-> decor, flat |-> FALSE] :
                gs \in [1..n -> SceneGeometries], mo \in MatConfigs(n),
                img \in SceneImages, decor \in BOOLEAN } : n \in 0..MaxGeoms }

RatioOptions == { 0, 30 }

InitRun ==
    /\ MeshIdle
    /\ pc = "start"
    /\ entry \in { "cli", "api" }
    /\ config = DefaultConfig
    /\ options \in [mode : Modes, ratio : RatioOptions, validation : {TRUE}]
    /\ entry = "api" => options.ratio = 0
    /\ func = "none"
    /\ input \in Scenes
    /\ texFail = {}
    /\ scene = EmptyScene
    /\ cursor = 0
    /\ before = <<>>
    /\ reported = <<>>
    /\ trace = <<>>
    /\ error = "none"
    /\ success = "pending"
    /\ exit = -1
    /\ output = EmptyScene

\* str.lower() on the mode names explored
Lower(mode) ==
    CASE mode = "NORMAL" -> "normal"
      [] mode = "ULTRA"  -> "ultra"
      [] OTHER           -> mode

\* ParameterValidator.validate_mode
ValidateMode(mode) == Lower(mode) \in Modes

\* faulty variant: every ratio is accepted
ValidateTargetRatio_Any(ratio) == TRUE

\* ParameterValidator.validate_target_ratio: 0.01 <= ratio <= 1.0
ValidateTargetRatio(ratio) == 1 <= ratio /\ ratio <= 100

\* FileValidator._validate_geometry
ValidateGeometry(g) ==
    /\ Len(g.vertices) >= 3
    /\ Len(g.faces) >= 1
    /\ FaceMax(g) < Len(g.vertices)

\* FileValidator.validate_glb_content; loadOk: trimesh.load did not raise
ValidateGlbContent(sc, loadOk) ==
    /\ loadOk
    /\ Len(sc.geometry) > 0
    /\ \A i \in 1..Len(sc.geometry) : ValidateGeometry(sc.geometry[i])

\* glbopt.py validate_input; fileOk: validate_input_file accepted the path
ValidateInput(opts, sc, fileOk, loadOk) ==
    /\ fileOk
    /\ opts.validation => ValidateGlbContent(sc, loadOk)
    /\ ValidateMode(opts.mode)
    /\ opts.ratio # 0 => ValidateTargetRatio(opts.ratio)

\* glbopt.py main(), lines 237-257: validate_input, the default ratio of the
\* mode, and validate_output_path (outOk)
MainValidate ==
    /\ pc = "start" /\ entry = "cli"
    /\ \E fileOk \in BOOLEAN, loadOk \in BOOLEAN, outOk \in BOOLEAN :
         IF ValidateInput(options, input, fileOk, loadOk) /\ outOk
         THEN /\ pc' = "dispatch"
              /\ options' = [options EXCEPT !.ratio =
                                IF @ = 0 THEN DefaultRatio(options.mode) ELSE @]
              /\ UNCHANGED <<error, exit>>
         ELSE /\ pc' = "exit"
              /\ error' = "validation"
              /\ exit' = 1
              /\ UNCHANGED options
    /\ UNCHANGED <<meshVars, entry, config, func, input, texFail, scene, cursor, before, reported,
                   trace, success, output>>

\* glbopt.py main(), lines 270-289: the method is looked up and called; a call
\* with more positional arguments than the method takes raises TypeError,
\* which main() turns into exit status 1
MainDispatch ==
    /\ pc = "dispatch"
    /\ IF CallArgs(options.mode) > MaxPositional(ModeMap(options.mode))
       THEN /\ pc' = "exit"
            /\ error' = "TypeError"
            /\ exit' = 1
            /\ UNCHANGED func
       ELSE /\ pc' = "load"
            /\ func' = ModeMap(options.mode)
            /\ UNCHANGED <<error, exit>>
    /\ UNCHANGED <<meshVars, entry, config, options, input, texFail, scene, cursor, before, reported,
                   trace, success, output>>

\* a GLBOptimizer method called directly with its own parameters
ApiCall ==
    /\ pc = "start" /\ entry = "api"
    /\ pc' = "load"
    /\ func' = ModeMap(options.mode)
    /\ UNCHANGED <<meshVars, entry, config, options, input, texFail, scene, cursor, before, reported,
                   trace, error, success, exit, output>>

\* trimesh.load(input_path, force='scene')
Load ==
    /\ pc = "load"
    /\ trace' = Append(trace, "load")
    /\ \E ok \in BOOLEAN :
         IF ok
         THEN /\ scene' = input
              /\ pc' = NextStage(func, "load")
              /\ cursor' = 1
              /\ UNCHANGED <<error, success>>
         ELSE /\ pc' = "return"
              /\ error' = "load"
              /\ success' = "False"
              /\ UNCHANGED <<scene, cursor>>
    /\ UNCHANGED <<meshVars, entry, config, options, func, input, texFail, before, reported, exit, output>>

\* self.texture_processor.compress_scene_textures_webp(scene, ...)
Textures ==
    /\ pc = "textures"
    /\ trace' = Append(trace, "textures")
    /\ \E failAt \in SUBSET { i \in 1..Len(scene.geometry) : HasImage(scene, i) } :
         /\ scene' = CompressSceneTexturesWebp(scene, TextureArgs(func).quality,
                                               TextureArgs(func).resize_factor, failAt)
         /\ texFail' = failAt
    /\ pc' = NextStage(func, "textures")
    /\ UNCHANGED <<meshVars, entry, config, options, func, input, cursor, before, reported,
                   error, success, exit, output>>

\* scene = self.scene_manager.remove_scene_elements(scene)
Prune ==
    /\ pc = "prune"
    /\ trace' = Append(trace, "prune")
    /\ \E o \in PruneOracles : scene' = RemoveSceneElements(scene, o)
    /\ pc' = NextStage(func, "prune")
    /\ UNCHANGED <<meshVars, entry, config, options, func, input, texFail, cursor, before, reported,
                   error, success, exit, output>>

\* _deep_clean_scene: one iteration of its loop; an exception reaching the
\* loop ends _deep_clean_scene (it returns False) and the method goes on
DeepCleanStep ==
    /\ pc = "geometry"
    /\ func \in { "optimize_safe_texture_preserving", "optimize_aggressive",
                   "optimize_ultra_light" }
    /\ cursor <= Len(scene.geometry)
    /\ \E o \in Oracles :
         LET r == CleanGeometryCaught(scene.geometry[cursor], o)
         IN  IF r.raised
             THEN /\ pc' = "export"
                  /\ UNCHANGED <<scene, cursor, before, reported>>
             ELSE /\ scene' = [scene EXCEPT !.geometry[cursor] = r.g]
                  /\ before' = Append(before, scene.geometry[cursor])
                  /\ reported' = Append(reported, IF r.ok THEN "ok" ELSE "failed")
                  /\ cursor' = cursor + 1
                  /\ pc' = "geometry"
    /\ trace' = Append(trace, "geometry")
    /\ UNCHANGED <<meshVars, entry, config, options, func, input, texFail, error, success, exit, output>>

\* optimize_vertex_cleanup: one iteration of its loop; an exception reaching
\* the loop is caught by the method, which returns False
VertexCleanupStep ==
    /\ pc = "geometry"
    /\ func = "optimize_vertex_cleanup"
    /\ cursor <= Len(scene.geometry)
    /\ \E o \in Oracles :
         LET r == CleanGeometryCaught(scene.geometry[cursor], o)
         IN  IF r.raised
             THEN /\ pc' = "return"
                  /\ error' = "exception"
                  /\ success' = "False"
                  /\ UNCHANGED <<scene, cursor, before, reported>>
             ELSE /\ scene' = [scene EXCEPT !.geometry[cursor] = r.g]
                  /\ before' = Append(before, scene.geometry[cursor])
                  /\ reported' = Append(reported, IF r.ok THEN "ok" ELSE "failed")
                  /\ cursor' = cursor + 1
                  /\ pc' = "geometry"
                  /\ UNCHANGED <<error, success>>
    /\ trace' = Append(trace, "geometry")
    /\ UNCHANGED <<meshVars, entry, config, options, func, input, texFail, exit, output>>

\* optimize_hole_filling: one iteration of its loop
RepairStep ==
    /\ pc = "geometry"
    /\ func = "optimize_hole_filling"
    /\ cursor <= Len(scene.geometry)
    /\ \E o \in RepairOracles :
         LET r == RepairGeometry(scene.geometry[cursor], o)
         IN  IF r.raised
             THEN /\ pc' = "return"
                  /\ error' = "exception"
                  /\ success' = "False"
                  /\ UNCHANGED <<scene, cursor, before, reported>>
             ELSE /\ scene' = [scene EXCEPT !.geometry[cursor] = r.g]
                  /\ reported' = Append(reported, r.report)
                  /\ before' = Append(before, scene.geometry[cursor])
                  /\ cursor' = cursor + 1
                  /\ UNCHANGED <<pc, error, success>>
    /\ trace' = Append(trace, "geometry")
    /\ UNCHANGED <<meshVars, entry, config, options, func, input, texFail, exit, output>>

\* the per-geometry loop has visited every geometry
LoopDone ==
    /\ pc = "geometry"
    /\ cursor > Len(scene.geometry)
    /\ pc' = NextStage(func, "geometry")
    /\ UNCHANGED <<meshVars, entry, config, options, func, input, texFail, scene, cursor, before,
                   reported, trace, error, success, exit, output>>

\* scene.export(output_path, file_type='glb'); return True
Export ==
    /\ pc = "export"
    /\ trace' = Append(trace, "export")
    /\ \E ok \in BOOLEAN :
         IF ok
         THEN /\ output' = scene
              /\ success' = "True"
              /\ UNCHANGED error
         ELSE /\ error' = "export"
              /\ success' = "False"
              /\ UNCHANGED output
    /\ pc' = "return"
    /\ UNCHANGED <<meshVars, entry, config, options, func, input, texFail, scene, cursor, before,
                   reported, exit>>

\* the method has returned; main() turns its result into the exit status
Return ==
    /\ pc = "return"
    /\ pc' = "exit"
    /\ exit' = IF entry = "cli" THEN (IF success = "True" THEN 0 ELSE 1) ELSE exit
    /\ UNCHANGED <<meshVars, entry, config, options, func, input, texFail, scene, cursor, before,
                   reported, trace, error, success, output>>

NextRun ==
    \/ MainValidate \/ MainDispatch \/ ApiCall \/ Load \/ Textures \/ Prune
    \/ DeepCleanStep \/ VertexCleanupStep \/ RepairStep \/ LoopDone
    \/ Export \/ Return

SpecRun == InitRun /\ [][NextRun]_vars

(***************************************************************************)
(* Command lines, valid or not, on scenes of at most one geometry.         *)
(***************************************************************************)
CliModes == Modes \cup { "NORMAL", "ULTRA", "fast" }

CliRatios == { 0, 3, 30, 150, 0 - 5 }

\* --timeout, counted in pipeline steps; 300 when the option is not given
CliTimeouts == { 2, 300 }

MainScenes == { sc \in Scenes : Len(sc.geometry) <= 1 /\ ~sc.camera }

InitMain ==
    /\ MeshIdle
    /\ pc = "start"
    /\ entry = "cli"
    /\ \E t \in CliTimeouts :
         config = [DefaultConfig EXCEPT !.max_processing_time_seconds = t]
    /\ options \in [mode : CliModes, ratio : CliRatios, validation : BOOLEAN]
    /\ func = "none"
    /\ input \in MainScenes
    /\ texFail = {}
    /\ scene = EmptyScene
    /\ cursor = 0
    /\ before = <<>>
    /\ reported = <<>>
    /\ trace = <<>>
    /\ error = "none"
    /\ success = "pending"
    /\ exit = -1
    /\ output = EmptyScene

NextMain ==
    \/ MainValidate \/ MainDispatch \/ Load \/ Textures \/ Prune
    \/ DeepCleanStep \/ VertexCleanupStep \/ RepairStep \/ LoopDone
    \/ Export \/ Return

SpecMain == InitMain /\ [][NextMain]_vars

(***************************************************************************)
(* GLBOptimizer built with a configuration of the caller's and its methods *)
(* called directly, on scenes of at most one geometry.                     *)
(***************************************************************************)
\* the defaults, the configuration of demo_advanced_usage, and one that
\* changes the other two texture settings
ApiConfigs ==
    { DefaultConfig,
      [DefaultConfig EXCEPT !.webp_quality_aggressive = 80,
                            !.max_processing_time_seconds = 120],
      [DefaultConfig EXCEPT !.webp_quality_normal = 60, !.webp_resize_factor = 50] }

\* optimize_aggressive's texture_quality argument, in percent: the default 0.5
\* and the 0.8 of demo_advanced_usage
TextureQualities == { 50, 80 }

InitApi ==
    /\ MeshIdle
    /\ pc = "start"
    /\ entry = "api"
    /\ config \in ApiConfigs
    /\ options \in [mode : Modes, ratio : {0}, validation : {TRUE},
                     texture_quality : TextureQualities]
    /\ func = "none"
    /\ input \in MainScenes
    /\ texFail = {}
    /\ scene = EmptyScene
    /\ cursor = 0
    /\ before = <<>>
    /\ reported = <<>>
    /\ trace = <<>>
    /\ error = "none"
    /\ success = "pending"
    /\ exit = -1
    /\ output = EmptyScene

NextApi ==
    \/ ApiCall \/ Load \/ Textures \/ Prune
    \/ DeepCleanStep \/ VertexCleanupStep \/ RepairStep \/ LoopDone
    \/ Export \/ Return

SpecApi == InitApi /\ [][NextApi]_vars

(***************************************************************************)
(* The scene manager called on its own, on scenes that also hold           *)
(* geometries without faces (point clouds) or without any buffer.          *)
(***************************************************************************)
PointCloud == [vertices |-> VertexBuffer(MaxVerts, 0), visual |-> NoVisual]

Bare == [visual |-> NoVisual]

ManagedGeometries == SceneGeometries \cup { PointCloud, Bare }

ManagedScenes ==
    UNION { { [geometry |-> gs, names |-> [i \in 1..n |-> <<"geometry", i - 1>>],
               matOf |-> mo,
               materials |-> [k \in 1..NumMaterials(mo) |-> img],
               lights |-> l, camera |-> c, flat |-> FALSE] :
                gs \in [1..n -> ManagedGeometries], mo \in MatConfigs(n),
                img \in SceneImages, l \in 0..1, c \in BOOLEAN } : n \in 0..MaxGeoms }

InitScene ==
    /\ MeshIdle
    /\ pc = "start"
    /\ entry = "api"
    /\ config = DefaultConfig
    /\ options = [mode |-> "normal", ratio |-> 0, validation |-> TRUE]
    /\ func = "none"
    /\ input \in ManagedScenes
    /\ texFail = {}
    /\ scene = input
    /\ cursor = 0
    /\ before = <<>>
    /\ reported = <<>>
    /\ trace = <<>>
    /\ error = "none"
    /\ success = "pending"
    /\ exit = -1
    /\ output = EmptyScene

\* flat = scene_manager.flatten_scene(scene)
CallFlattenScene ==
    /\ pc = "start"
    /\ output' = FlattenScene(scene)
    /\ func' = "flatten_scene"
    /\ pc' = "returned"
    /\ UNCHANGED <<meshVars, entry, config, options, input, texFail, scene, cursor, before,
                   reported, trace, error, success, exit>>

\* result = scene_manager.remove_scene_elements(scene); error records the
\* step that failed inside the call
CallRemoveSceneElements ==
    /\ pc = "start"
    /\ \E o \in PruneOracles :
         /\ scene' = ClearElements(scene, o)
         /\ output' = RemoveSceneElements(scene, o)
         /\ error' = IF o = "ok" THEN "none" ELSE o
    /\ func' = "remove_scene_elements"
    /\ pc' = "returned"
    /\ UNCHANGED <<meshVars, entry, config, options, input, texFail, cursor, before,
                   reported, trace, success, exit>>

NextScene == CallFlattenScene \/ CallRemoveSceneElements

SpecScene == InitScene /\ [][NextScene]_vars

(***************************************************************************)
(* Properties of the mesh processor, checked under SpecMesh.               *)
(***************************************************************************)
LastOp(name) == Len(ops) > 0 /\ Last(ops) = name

\* every attribute array of g has one entry per vertex, entry i authored for
\* the vertex now at position i
AttrAligned(g) ==
    g.visual.kind # "none" =>
        /\ Len(g.visual.data) = Len(g.vertices)
        /\ \A i \in 1..Len(g.vertices) : g.visual.data[i] = g.vertices[i].id

\* C1: after clean_geometry returns, whatever it returns, every face index of
\* the geometry is >= 0 and < len(vertices).
C1_NoDanglingIndexAfterClean ==
    LastOp("clean") => FacesInRange(geom)

\* C6: after _remove_unused_vertices on a geometry carrying a per-vertex
\* attribute array, the array has len(vertices) entries and entry i is the one
\* that belonged to the vertex now at position i.
C6_AttributesFollowVertices ==
    (LastOp("unused") /\ pre.visual.kind # "none" /\ AttrAligned(pre))
        => AttrAligned(geom)

\* C7: on a geometry whose face indices are all in range,
\* _remove_unused_vertices keeps exactly the referenced vertices in ascending
\* index order, keeps the faces in number and order, makes every face corner
\* point to the vertex it pointed to before, and changes nothing when every
\* vertex is referenced.
C7_UnusedVertexRemoval ==
    (LastOp("unused") /\ FacesInRange(pre) /\ Len(pre.vertices) > 0) =>
        LET used == UsedVertexIndices(pre)
        IN  IF Cardinality(used) = Len(pre.vertices)
            THEN geom = pre
            ELSE /\ Len(geom.vertices) = Cardinality(used)
                 /\ \A k \in 1..Len(geom.vertices) :
                        geom.vertices[k] = pre.vertices[KthOf(used, k) + 1]
                 /\ Len(geom.faces) = Len(pre.faces)
                 /\ \A f \in 1..Len(pre.faces) : \A c \in 1..3 :
                        /\ geom.faces[f][c] \in 0..(Len(geom.vertices) - 1)
                        /\ geom.vertices[geom.faces[f][c] + 1] =
                               pre.vertices[pre.faces[f][c] + 1]

\* C7 witness: an unreferenced vertex was removed and a face index rewritten
C7_Witness ==
    /\ LastOp("unused") /\ FacesInRange(pre)
    /\ Len(geom.vertices) < Len(pre.vertices)
    /\ \E f \in 1..Len(pre.faces) : \E c \in 1..3 :
           geom.faces[f][c] # pre.faces[f][c]

\* C8: clean_geometry run twice in succession: the vertex count and the face
\* count after the second run equal those after the first run.
C8_CleanIdempotentOnCounts ==
    (Len(ops) >= 2 /\ Last(ops) = "clean" /\ ops[Len(ops) - 1] = "clean"
        /\ rets[Len(ops) - 1] /\ Last(rets))
        => /\ Len(geom.vertices) = Len(pre.vertices)
           /\ Len(geom.faces) = Len(pre.faces)


\* C30: whenever _remove_unused_vertices returns False, the geometry's
\* vertices, faces and UV array are as they were before the call.
C30_RemoveUnusedAllOrNothing ==
    (LastOp("unused") /\ ~Last(rets)) => geom = pre

\* C26: clean_geometry starts its six passes in the fixed order unused-vertex
\* removal, vertex merge, unreferenced-vertex removal, degenerate-face
\* removal, duplicate-face removal, normal fix, and each later pass is still
\* started when an earlier pass failed.
C26_AllPassesInOrder ==
    LastOp("clean") =>
        trace = <<"unused", "merge", "unref", "invalid", "duplicate", "normals">>

(***************************************************************************)
(* Properties of simplify_geometry_safely, checked under SpecSimplify.     *)
(***************************************************************************)
\* C5: whenever simplify_geometry_safely returns success = False, the
\* geometry's vertices, faces and visual are those it had before the call.
C5_FailedSimplifyLeavesGeometry ==
    (LastOp("simplify") /\ ~Last(rets).success) => geom = pre

\* C9: simplify_geometry_safely never reports newFaceCount > originalFaceCount
\* and never leaves the geometry with more faces than before the call,
\* whatever the decimation transform returns.
C9_SimplifyNeverAddsFaces ==
    LastOp("simplify") =>
        /\ Last(rets).new_faces <= Last(rets).original_faces
        /\ geom.faces.n <= pre.faces.n

\* C10: a geometry with fewer than min_face_count faces gets (False, 0, 0),
\* the decimation transform is not invoked and the geometry is untouched; a
\* geometry with exactly min_face_count faces has the transform attempted.
C10_MinFaceCountGate ==
    (LastOp("simplify") /\ pre.hasFaces) =>
        /\ pre.faces.n < min_face_count =>
              /\ Last(rets) = SimplifyRet(FALSE, 0, 0)
              /\ decim = <<>>
              /\ geom = pre
        /\ pre.faces.n = min_face_count => Len(decim) = 1

\* C10 witness: a geometry one face short of the minimum was refused
C10_Witness ==
    /\ LastOp("simplify") /\ pre.hasFaces
    /\ pre.faces.n = min_face_count - 1
    /\ Last(rets) = SimplifyRet(FALSE, 0, 0)
    /\ decim = <<>>


\* C11: the face count requested from the decimation transform is
\* floor(originalFaceCount * max(safe_face_ratio, targetRatio)), hence never
\* below floor(originalFaceCount * safe_face_ratio), whatever the ratio passed.
C11_RequestedFaceCount ==
    (LastOp("simplify") /\ decim # <<>>) =>
        LET k   == decim[1].face_count
            eff == Max(safe_face_ratio, decim[1].target_faces_ratio)
        IN  /\ Len(decim) = 1
            /\ 100 * k <= pre.faces.n * eff
            /\ pre.faces.n * eff < 100 * (k + 1)
            /\ 100 * (k + 1) > pre.faces.n * safe_face_ratio

\* C11 witness: a ratio below the safe ratio, with a product that is not whole
C11_Witness ==
    /\ LastOp("simplify") /\ decim # <<>>
    /\ decim[1].target_faces_ratio < safe_face_ratio
    /\ (pre.faces.n * safe_face_ratio) % 100 # 0
    /\ decim[1].face_count = (pre.faces.n * safe_face_ratio) \div 100

(***************************************************************************)
(* Properties of detect_mesh_holes and validate_and_repair_mesh, checked   *)
(* under SpecRepair.                                                       *)
(***************************************************************************)
\* C12: on a geometry with vertices and faces validate_and_repair_mesh
\* returns True, keeps every face whose indices all lie in
\* [0, vertexCount-1], in order, and leaves no face with an index outside
\* that range; with no vertices or no faces it returns False.
C12_ValidateDropsInvalidFaces ==
    LastOp("validate") =>
        IF Len(pre.vertices) = 0 \/ Len(pre.faces) = 0
        THEN Last(rets) = FALSE
        ELSE LET kept == SelectIdx(pre.faces, ValidFaces(pre), 1)
             IN  /\ Last(rets) = TRUE
                 /\ FacesInRange(geom)
                 /\ Len(geom.faces) >= Len(kept)
                 /\ SubSeq(geom.faces, 1, Len(kept)) = kept

InList(list, x) == \E i \in 1..Len(list) : list[i] = x

\* C15: detect_mesh_holes leaves the geometry alone and, unless the
\* watertightness check was skipped, reports OpenBoundary exactly when the
\* mesh is not watertight, InconsistentWinding exactly when the winding is
\* inconsistent and InvalidVolume exactly when the mesh is not a valid volume.
C15_DetectReportsDiagnostics ==
    LastOp("detect") =>
        /\ geom = pre
        /\ ~InList(Last(rets), "CheckSkipped") =>
              /\ InList(Last(rets), "OpenBoundary") <=> ~IsWatertight(pre)
              /\ InList(Last(rets), "InconsistentWinding") <=> ~IsWindingConsistent(pre)
              /\ InList(Last(rets), "InvalidVolume") <=> ~IsVolume(pre)

(***************************************************************************)
(* Properties of main(), checked under SpecMain.                           *)
(***************************************************************************)
\* C20: a run whose validation failed ends with exit status 1 before any
\* mode method is called (nothing loaded, changed or exported), and a mode
\* method is only called for a valid mode name, a ratio in [0.01, 1.0] and,
\* when content validation is on, a scene it accepts.
C20_ValidationBeforeProcessing ==
    /\ error = "validation" =>
          /\ pc = "exit" /\ exit = 1
          /\ func = "none" /\ trace = <<>> /\ success = "pending"
          /\ scene = EmptyScene /\ output = EmptyScene
    /\ (entry = "cli" /\ (pc = "dispatch" \/ func # "none")) =>
          /\ error # "validation"
          /\ options.mode \in { "normal", "aggressive", "ultra", "vertex", "repair",
                                 "NORMAL", "ULTRA" }
          /\ 1 <= options.ratio /\ options.ratio <= 100
          /\ options.validation =>
                /\ input.geometry # <<>>
                /\ \A i \in 1..Len(input.geometry) :
                      LET g == input.geometry[i]
                      IN  /\ Len(g.vertices) >= 3 /\ Len(g.faces) >= 1
                          /\ \A f \in 1..Len(g.faces) : \A c \in 1..3 :
                                g.faces[f][c] < Len(g.vertices)

\* a command line with --ratio 1.5 was refused
C20_Witness ==
    /\ entry = "cli" /\ pc = "exit" /\ exit = 1 /\ error = "validation"
    /\ options.ratio = 150 /\ options.mode \in Modes
    /\ func = "none"

\* C21: a command line is accepted only with a ratio in [0.05, 1.0]: once
\* validation has passed, the ratio in use is between 5 and 100 hundredths.
C21_RatioRangeEnforced ==
    (entry = "cli" /\ pc # "start" /\ error # "validation") =>
        (5 <= options.ratio /\ options.ratio <= 100)

\* the logical clock of a run: the pipeline steps taken so far
Elapsed == Len(trace)

\* C22: a run whose processing takes more steps than the configured budget
\* (config.max_processing_time_seconds, set from --timeout) is aborted: it
\* ends with a timeout error and a non-zero exit status.
C22_TimeoutAborts ==
    (pc = "exit" /\ Elapsed > config.max_processing_time_seconds) =>
        (error = "timeout" /\ exit # 0)

\* C29: every mode string the validation accepts is dispatched to the
\* pipeline of that mode and, when no ratio was given, gets that mode's
\* default ratio; a string differing only in letter case does not fall back
\* to the Normal pipeline.
C29_AcceptedModeDispatched ==
    (entry = "cli" /\ pc # "start" /\ error # "validation") =>
        /\ func # "none" => func = ModeMap(Lower(options.mode))
        /\ options.ratio \notin CliRatios =>
              options.ratio = DefaultRatio(Lower(options.mode))

\* the place of a stage in the order load, prune, geometry, textures, export
StageRank(stage) ==
    CASE stage = "load"     -> 1
      [] stage = "prune"    -> 2
      [] stage = "geometry" -> 3
      [] stage = "textures" -> 4
      [] stage = "export"   -> 5

\* C25: the stages of a run occur in the order load, pruning, geometry
\* processing, texture processing, export: no stage is entered after a stage
\* that comes later in that order.
C25_StageOrder ==
    \A i \in 1..Len(trace) : \A j \in 1..Len(trace) :
        i < j => StageRank(trace[i]) <= StageRank(trace[j])

(***************************************************************************)
(* Properties of the scene manager, checked under SpecScene.               *)
(***************************************************************************)
Returned(name) == pc = "returned" /\ func = name

\* the geometries of a scene that carry vertex data or face data, in order
WithData(sc) ==
    SelectSeq(sc.geometry, LAMBDA g : HasAttr(g, "vertices") \/ HasAttr(g, "faces"))

\* C23: flatten_scene returns a new scene holding, once each and in the
\* source order, every source geometry except those lacking both vertex and
\* face data; the k geometries kept are named mesh_0 .. mesh_(k-1); the source
\* scene's geometries are not altered.
C23_FlattenKeepsGeometries ==
    Returned("flatten_scene") =>
        /\ output.geometry = WithData(input)
        /\ output.names = [k \in 1..Len(output.geometry) |-> <<"mesh", k - 1>>]
        /\ scene.geometry = input.geometry

\* C24: remove_scene_elements is best-effort: a failure clearing the lights
\* does not prevent clearing the camera, a failure clearing either does not
\* prevent flattening, a failure of flattening returns the scene as it was
\* before the flattening step, and when nothing fails the returned scene has
\* no lights, no camera and a flat hierarchy.
C24_PruneBestEffort ==
    Returned("remove_scene_elements") =>
        /\ error = "lights" => ~scene.camera /\ ~output.camera
        /\ error = "camera" => scene.lights = 0 /\ output.lights = 0
        /\ error \in { "lights", "camera" } => output = FlattenScene(scene)
        /\ error = "flatten" =>
              output = scene /\ scene.lights = 0 /\ ~scene.camera /\ ~scene.flat
        /\ error = "none" => output.lights = 0 /\ ~output.camera /\ output.flat

\* the clearing of the lights failed on a scene with lights, a camera and
\* geometries, and the call went on to clear the camera and to flatten
C24_Witness ==
    /\ Returned("remove_scene_elements")
    /\ error = "lights"
    /\ input.lights > 0 /\ input.camera
    /\ scene.lights > 0 /\ ~scene.camera
    /\ output.flat /\ Len(output.geometry) > 0

(***************************************************************************)
(* Properties of a whole run, checked under SpecRun.                       *)
(***************************************************************************)
InTrace(stage) == \E i \in 1..Len(trace) : trace[i] = stage

\* C2: in every mode pipeline a geometry whose cleanup or repair fails does
\* not stop the run: the export step is only reached after every geometry of
\* the scene has been visited, and a method whose load and export succeed
\* has exported and returns True.
C2_PerGeometryFailureIsolation ==
    /\ pc = "export" => Len(reported) = Len(scene.geometry)
    /\ (pc \in { "return", "exit" } /\ func # "none" /\ error \notin { "load", "export" })
          => /\ success = "True"
             /\ InTrace("export")
             /\ Len(reported) = Len(scene.geometry)

\* a run that returned True although a geometry other than the last failed
C2_Witness ==
    /\ pc = "exit" /\ success = "True"
    /\ \E i \in 1..Len(reported) : i < Len(reported) /\ reported[i] = "failed"

\* C3: a geometry whose clean_geometry or fill_mesh_holes call reported
\* failure reaches the export step with the vertices, faces and attributes
\* it had before that call.
C3_FailedGeometryExportedUnchanged ==
    pc = "export" =>
        \A i \in 1..Len(reported) :
            reported[i] = "failed" => scene.geometry[i] = before[i]

\* C4: no run started from the command line with a valid input and one of
\* the five mode names ends before the scene is loaded.
C4_EveryModeLoadsTheScene ==
    (entry = "cli" /\ pc = "exit" /\ error # "validation") => InTrace("load")


\* C13: a Repair-mode run never patches a hole: at export no geometry has
\* more faces than it had when the scene was loaded.
C13_RepairNeverAddsFaces ==
    (func = "optimize_hole_filling" /\ pc = "export") =>
        \A i \in 1..Len(scene.geometry) :
            Len(scene.geometry[i].faces) <= Len(input.geometry[i].faces)


\* C14: in Repair mode a geometry on which nothing was detected is watertight,
\* and it is tallied apart from the repaired ones: the tally the summary
\* prints as repaired counts exactly the geometries fill_mesh_holes repaired.
C14_AlreadyCleanTalliedApart ==
    (func = "optimize_hole_filling" /\ pc = "export") =>
        /\ \A i \in 1..Len(reported) : reported[i] = "clean" => IsWatertight(before[i])
        /\ CleanedMeshes(reported) =
              Cardinality({ i \in 1..Len(reported) : reported[i] = "ok" })


Loaded == InTrace("load") /\ error # "load"

\* C16: Normal mode runs only load, pruning, clean_geometry and export: the
\* texture processor and the decimation transform are never invoked, and
\* every material image in memory, and in the exported scene, is the one
\* that was loaded.
C16_NormalModeKeepsTextures ==
    func = "optimize_safe_texture_preserving" =>
        /\ \A i \in 1..Len(trace) : trace[i] \in { "load", "prune", "geometry", "export" }
        /\ decim = <<>>
        /\ Loaded => (scene.materials = input.materials /\ scene.matOf = input.matOf)
        /\ success = "True" =>
              (output.materials = input.materials /\ output.matOf = input.matOf)

\* a finished Normal run on a textured scene that pruned and cleaned it
C16_Witness ==
    /\ func = "optimize_safe_texture_preserving" /\ pc = "exit" /\ success = "True"
    /\ input.materials # <<>>
    /\ output.geometry # input.geometry
    /\ input.lights > 0 /\ output.lights = 0


\* the edge e1 is what the resize rule makes of e0 with factor f (hundredths):
\* floor(e0 * f), raised to min_texture_size
Resized(e0, e1, f) ==
    LET scaled == CHOOSE k \in 0..e0 : 100 * k <= e0 * f /\ e0 * f < 100 * (k + 1)
    IN  e1 = IF scaled < min_texture_size THEN min_texture_size ELSE scaled

RefsOf(sc, k) == { i \in 1..Len(sc.matOf) : sc.matOf[i] = k }

\* C18: once the texture stage has run, a material whose image could not be
\* recompressed still has the image it was loaded with, every other material
\* with an image has been recompressed, a material without an image is left
\* as it was, and the run has moved on to the stage after the textures.
C18_TextureFailureIsolation ==
    InTrace("textures") =>
        /\ pc # "textures" /\ error \notin { "textures", "exception" }
        /\ \A k \in 1..Len(scene.materials) :
              LET old == input.materials[k]
                  new == scene.materials[k]
              IN  /\ ~old.present => new = old
                  /\ (old.present /\ RefsOf(input, k) \subseteq texFail) => new = old
                  /\ (old.present /\ ~(RefsOf(input, k) \subseteq texFail)) =>
                        (new.gen > 0 /\ new.q = TextureArgs(func).quality)

\* a scene of two materials: the image of the first could not be
\* recompressed, the image of the second was, and the run went on to export
C18_Witness ==
    /\ InTrace("textures") /\ pc = "exit" /\ success = "True"
    /\ texFail = {1}
    /\ Len(scene.materials) = 2
    /\ scene.materials[1] = input.materials[1]
    /\ scene.materials[2].gen = 1


C28_SharedMaterialOnce ==
    InTrace("textures") =>
        \A k \in 1..Len(scene.materials) :
            LET old == input.materials[k]
                new == scene.materials[k]
            IN  /\ new.gen <= 1
                /\ new.gen > 0 =>
                      /\ Resized(old.w, new.w, TextureArgs(func).resize_factor)
                      /\ Resized(old.h, new.h, TextureArgs(func).resize_factor)

(***************************************************************************)
(* Properties of the GLBOptimizer methods called directly, checked under   *)
(* SpecApi.                                                                *)
(***************************************************************************)
\* C27: the quality and resize factor the texture stage applies are those of
\* the OptimizationConfig the optimizer was built with (for
\* optimize_aggressive, of the config or of its texture_quality argument):
\* an image recompressed by Aggressive carries webp_quality_normal or
\* texture_quality, one recompressed once by Ultra carries
\* webp_quality_aggressive and is resized by webp_resize_factor.
C27_ConfigDrivesTextures ==
    InTrace("textures") =>
        \A k \in 1..Len(scene.materials) :
            LET old == input.materials[k]
                new == scene.materials[k]
            IN  /\ (new.gen > 0 /\ func = "optimize_aggressive") =>
                      new.q \in { config.webp_quality_normal, options.texture_quality }
                /\ (new.gen = 1 /\ func = "optimize_ultra_light") =>
                      /\ new.q = config.webp_quality_aggressive
                      /\ Resized(old.w, new.w, config.webp_resize_factor)
                      /\ Resized(old.h, new.h, config.webp_resize_factor)

=============================================================================
